---- MODULE Spec2Model ----
(***************************************************************************)
(* Post ingestion pipeline of the portfolio site: the posts directory, the *)
(* front-matter parser, the reading-time estimator, getPosts and           *)
(* getPostWithHtmlContent (src/utils/getPosts.ts, kept as                  *)
(* src/unnamed/part_002) and getReadingTimeInMinutes.                      *)
(*                                                                         *)
(* Strings are sequences of one-character strings.                         *)
(***************************************************************************)
EXTENDS Integers, Sequences, FiniteSets

VARIABLES
    NEXT_PUBLIC_BASE_URL, \* process.env.NEXT_PUBLIC_BASE_URL (part_002 line 104)
    unreadable, \* the paths whose read throws: the posts directory when it is
              \* missing, an entry of it when that is a directory
    dir,      \* fs.readdirSync(postsDirectory): the file names, in enumeration order
    store,    \* the content of every file of the directory
    matterCache, \* gray-matter's module-level cache: the inputs it has an entry for
    slugger,  \* marked-gfm-heading-id's module-level slugger: its occurrences
    renders,  \* the ids of the last three renders, latest first (where kept)
    promises, \* per caller, <<the outcome of the call it has not yet observed>>
    ret,      \* the outcome of the last getPosts / getPostWithHtmlContent call
    page,     \* the outcome of the last call of a function of a page
    estIn,    \* the text handed to getReadingTimeInMinutes
    estOut,   \* <<its result>>, empty before the call
    estPrev   \* <<word count and result of the previous estimator call>>, if any

vars ==
    <<NEXT_PUBLIC_BASE_URL, unreadable, dir, store, matterCache, slugger, renders,
      promises, ret, page, estIn, estOut, estPrev>>

\* what no call writes: the environment and the posts directory
world == <<NEXT_PUBLIC_BASE_URL, unreadable, dir, store>>

(***************************************************************************)
(* Bounds of the model.                                                    *)
(***************************************************************************)
MaxFiles == 3      \* files in the posts directory
MaxMinutes == 2    \* estimator inputs reach 200 * MaxMinutes + 1 words
MaxPad == 1        \* leading / trailing whitespace characters of an input
StackDepth == 2    \* levels of block quote nesting the call stack holds

(***************************************************************************)
(* Characters and small string helpers.                                    *)
(***************************************************************************)
\* the characters matched by /\s/ and removed by String.prototype.trim
IsWs(c) == c \in {" ", "\n", "\t"}

Min(a, b) == IF a < b THEN a ELSE b

\* the claim's notion of a word: a maximal run of non-whitespace characters
WordCount(text) ==
    Cardinality({i \in 1..Len(text) :
        /\ ~IsWs(text[i])
        /\ (i = 1 \/ IsWs(text[i - 1]))})

CeilDiv(a, b) == (a + b - 1) \div b

(***************************************************************************)
(* getReadingTimeInMinutes.ts                                              *)
(***************************************************************************)
wordsPerMiunte == 200

\* String.prototype.trim
Trim(text) ==
    LET keep == {i \in 1..Len(text) : ~IsWs(text[i])}
    IN  IF keep = {} THEN <<>>
        ELSE LET lo == CHOOSE i \in keep : \A j \in keep : i <= j
                 hi == CHOOSE i \in keep : \A j \in keep : j <= i
             IN  SubSeq(text, lo, hi)

\* text.split(/\s+/).length: one more token than there are whitespace runs;
\* the empty string splits into one empty token
SplitWsLength(text) ==
    1 + Cardinality({i \in 1..Len(text) :
            /\ IsWs(text[i])
            /\ (i = 1 \/ ~IsWs(text[i - 1]))})

\* Math.ceil(n / d) for integers n >= 0, d > 0
MathCeilDiv(n, d) == IF n % d = 0 THEN n \div d ELSE (n \div d) + 1

\* mutants of the estimator
EstimateFloor(text) == SplitWsLength(Trim(text)) \div wordsPerMiunte
EstimateNoTrim(text) == MathCeilDiv(SplitWsLength(text), wordsPerMiunte)
EstimateSkipEmpty(text) == MathCeilDiv(WordCount(text), wordsPerMiunte)

getReadingTimeInMinutes(text) ==
    LET numberOfWords == SplitWsLength(Trim(text))
    IN  MathCeilDiv(numberOfWords, wordsPerMiunte)

\* Number.prototype.toString for a non-negative integer: its decimal digits
Digit(d) == <<"0", "1", "2", "3", "4", "5", "6", "7", "8", "9">>[d + 1]

RECURSIVE toString(_)
toString(n) ==
    IF n < 10 THEN <<Digit(n)>>
    ELSE toString(n \div 10) \o <<Digit(n % 10)>>

(***************************************************************************)
(* Inputs of the estimator: `lead` whitespace characters, `w` words        *)
(* separated by `gap` whitespace characters, `trail` whitespace characters.*)
(***************************************************************************)
MakeText(lead, w, gap, trail) ==
    LET core == IF w = 0 THEN 0 ELSE w + (w - 1) * gap
        n == lead + core + trail
    IN  [i \in 1..n |->
            IF i <= lead \/ i > lead + core THEN " "
            ELSE IF (i - lead - 1) % (gap + 1) = 0 THEN "w"
            ELSE IF (i - lead) % 2 = 0 THEN " " ELSE "\n"]

WordCounts ==
    {0, 1, 2} \cup
    {n * wordsPerMiunte + d : n \in 1..MaxMinutes, d \in {-1, 0, 1}}

Texts ==
    {MakeText(lead, w, gap, trail) :
        lead \in 0..MaxPad, w \in WordCounts, gap \in {1, 2}, trail \in 0..MaxPad}

(***************************************************************************)
(* The posts directory (part_002, line 48) and its documents.              *)
(*                                                                         *)
(* A document is the sequence of its lines, each ended by a line feed.  A  *)
(* line is the marker line `---`, a front-matter entry `key: 'value'`, or  *)
(* a line of text.                                                         *)
(***************************************************************************)
Undefined == <<"undefined">>     \* the JavaScript value undefined (no string)

Delim == [t |-> "delim", k |-> "", v |-> <<>>]
KV(key, value) == [t |-> "kv", k |-> key, v |-> value]
Text(chars) == [t |-> "text", k |-> "", v |-> chars]

Keys == {"title", "description", "coverPath", "readTimeInMinutes", "date"}

KeyChars ==
    [k \in Keys |->
        CASE k = "title" -> <<"t", "i", "t", "l", "e">>
          [] k = "description" -> <<"d", "e", "s", "c", "r", "i", "p", "t", "i", "o", "n">>
          [] k = "coverPath" -> <<"c", "o", "v", "e", "r", "P", "a", "t", "h">>
          [] k = "readTimeInMinutes" ->
                <<"r", "e", "a", "d", "T", "i", "m", "e", "I", "n",
                  "M", "i", "n", "u", "t", "e", "s">>
          [] k = "date" -> <<"d", "a", "t", "e">>]

\* the characters of one line, without its line feed
LineText(line) ==
    CASE line.t = "delim" -> <<"-", "-", "-">>
      [] line.t = "kv" -> KeyChars[line.k] \o <<":", " ", "'">> \o line.v \o <<"'">>
      [] line.t = "text" -> line.v

\* the characters of a run of lines, a line feed after each
RECURSIVE JoinLines(_)
JoinLines(lines) ==
    IF lines = <<>> THEN <<>>
    ELSE LineText(Head(lines)) \o <<"\n">> \o JoinLines(Tail(lines))

IsBlank(text) == \A i \in 1..Len(text) : IsWs(text[i])

GitKeep == <<".", "g", "i", "t", "k", "e", "e", "p">>
FileA == <<"a">>
FileAMd == <<"a", ".", "m", "d">>
FileBMd == <<"b", ".", "m", "d">>
FileNames == {GitKeep, FileA, FileAMd, FileBMd}

Date2023 == <<"2", "0", "2", "3", "-", "1", "2", "-", "0", "1">>
Date2024 == <<"2", "0", "2", "4", "-", "0", "1", "-", "0", "1">>

Hello == <<"H", "e", "l", "l", "o">>
TwoWords == <<"t", "w", "o", " ", "w", "o", "r", "d", "s">>

\* well-formed documents
DocOld == <<Delim, KV("title", <<"O">>), KV("date", Date2023), Delim, Text(Hello)>>
DocNew == <<Delim, KV("title", <<"N">>), KV("date", Date2024), Delim, Text(Hello)>>
DocNew2 ==
    <<Delim, KV("title", <<"M">>), KV("readTimeInMinutes", <<"5">>),
      KV("date", Date2024), Delim, Text(TwoWords)>>
\* no date declared
DocNoDate == <<Delim, KV("title", <<"U">>), Delim, Text(Hello)>>
\* opening marker, no closing marker, nothing but front-matter entries
DocOpenOnly == <<Delim, KV("title", <<"P">>), KV("date", Date2023)>>
\* opening marker, no closing marker, the body follows the entries
DocOpenBody == <<Delim, KV("title", <<"Q">>), KV("date", Date2023), Text(Hello)>>

Docs == {DocOld, DocNew, DocNew2, DocNoDate, DocOpenOnly, DocOpenBody}

\* the content of the keep-alive file: empty
DocEmpty == <<>>

\* documents whose bodies have headings, fenced code and placeholders
SectionOne == <<"#", "#", " ", "S", "e", "c", "t", "i", "o", "n", " ", "O", "n", "e">>
SectionTwo == <<"#", "#", "#", " ", "T", "w", "o">>
Fence(lang) == Text(<<"&grave;", "&grave;", "&grave;">> \o lang)
PlaceholderText ==
    <<"{", "{", "N", "E", "X", "T", "_", "P", "U", "B", "L", "I", "C", "_",
      "B", "A", "S", "E", "_", "U", "R", "L", "}", "}">>
OtherToken == <<"{", "{", "B", "A", "S", "E", "_", "U", "R", "L", "}", "}">>

DocHeadings ==
    <<Delim, KV("title", <<"T">>), KV("description", <<"D">>),
      KV("coverPath", <<"/", "c", ".", "p", "n", "g">>), KV("date", Date2024), Delim,
      Text(SectionOne), Text(<<>>), Text(Hello), Text(SectionOne), Text(SectionTwo)>>
DocFences ==
    <<Delim, KV("title", <<"F">>), KV("date", Date2023), Delim,
      Fence(<<"t", "s">>), Text(Hello), Fence(<<>>),
      Fence(<<"f", "o", "o">>), Text(Hello), Fence(<<>>),
      Fence(<<>>), Text(Hello), Fence(<<>>)>>
DocLinks ==
    <<Delim, KV("title", <<"L">>), KV("date", Date2023), Delim,
      Text(PlaceholderText \o <<"/", "x", " ">> \o PlaceholderText \o <<"/", "y">>)>>
DocOther ==
    <<Delim, KV("title", <<"B">>), KV("date", Date2023), Delim,
      Text(OtherToken \o <<"/", "x">>), Text(<<>>), Text(<<">", " ">> \o Hello)>>
\* a block quote nested deeper than the call stack holds
DocDeep ==
    <<Delim, KV("title", <<"Z">>), KV("date", Date2023), Delim,
      Text(Hello), Text([i \in 1..(StackDepth + 1) |-> ">"] \o <<" ">> \o Hello)>>

RenderDocs == {DocHeadings, DocFences, DocLinks, DocOther, DocDeep}

(***************************************************************************)
(* matter(fileContents), part_002 lines 76 and 100: gray-matter 4.         *)
(*                                                                         *)
(* parseMatter: a file that does not start with the marker has no front    *)
(* matter and is all content.  Otherwise the block runs to the first line  *)
(* starting with the marker, or to the end of the file when there is none  *)
(* (closeIndex = len), and the content is what follows that line.  The     *)
(* block is handed to the YAML parser, which throws on a line of text next *)
(* to mapping entries and on a repeated key.                               *)
(***************************************************************************)
NoData == [k \in Keys |-> Undefined]

HasOpen(doc) == Len(doc) >= 1 /\ doc[1].t = "delim"

CloseIndex(doc) ==
    LET closers == {i \in 2..Len(doc) : doc[i].t = "delim"}
    IN  IF closers = {} THEN Len(doc) + 1
        ELSE CHOOSE i \in closers : \A j \in closers : i <= j

Block(doc) == SubSeq(doc, 2, CloseIndex(doc) - 1)

YamlThrows(block) ==
    LET entries == {i \in 1..Len(block) : block[i].t = "kv"}
        texts == {i \in 1..Len(block) : block[i].t = "text" /\ ~IsBlank(block[i].v)}
    IN  \/ entries # {} /\ texts # {}
        \/ \E i, j \in entries : i # j /\ block[i].k = block[j].k

YamlLoad(block) ==
    [k \in Keys |->
        IF \E i \in 1..Len(block) : block[i].t = "kv" /\ block[i].k = k
        THEN block[CHOOSE i \in 1..Len(block) : block[i].t = "kv" /\ block[i].k = k].v
        ELSE Undefined]

\* a mutant: a block without a date is rejected
ParseThrowsUndated(doc) ==
    HasOpen(doc)
        /\ (YamlThrows(Block(doc))
                \/ \A i \in 1..Len(Block(doc)) : Block(doc)[i].k # "date")

ParseThrows(doc) == HasOpen(doc) /\ YamlThrows(Block(doc))

\* a mutant: the content is the whole file
ParseMatterWhole(doc) ==
    [data |-> IF HasOpen(doc) THEN YamlLoad(Block(doc)) ELSE NoData,
     content |-> JoinLines(doc)]

\* the file object parseMatter returns when it does not throw
ParseMatter(doc) ==
    IF ~HasOpen(doc)
    THEN [data |-> NoData, content |-> JoinLines(doc)]
    ELSE [data |-> YamlLoad(Block(doc)),
          content |-> JoinLines(SubSeq(doc, CloseIndex(doc) + 1, Len(doc)))]

\* the file object toFile builds and matter() stores in the cache before it
\* parses: no data, the whole input as content.  It stays in the cache as it
\* is when parseMatter throws.
UnparsedFile(doc) == [data |-> NoData, content |-> JoinLines(doc)]

CachedFile(doc) == IF ParseThrows(doc) THEN UnparsedFile(doc) ELSE ParseMatter(doc)

\* matter(input) without options: [threw, file, cache]
Matter(doc, cache) ==
    IF JoinLines(doc) = <<>>
    THEN [threw |-> FALSE, file |-> [data |-> NoData, content |-> <<>>], cache |-> cache]
    ELSE IF doc \in cache
    THEN [threw |-> FALSE, file |-> CachedFile(doc), cache |-> cache]
    ELSE [threw |-> ParseThrows(doc), file |-> CachedFile(doc),
          cache |-> cache \cup {doc}]

(***************************************************************************)
(* a.postedAt < b.postedAt, part_002 line 92: the relational comparison of *)
(* two strings compares code units; with undefined on either side it is    *)
(* false.                                                                  *)
(***************************************************************************)
AsciiOrder == <<"-", "0", "1", "2", "3", "4", "5", "6", "7", "8", "9">>

CodeUnit(c) == CHOOSE i \in 1..Len(AsciiOrder) : AsciiOrder[i] = c

StrLess(a, b) ==
    LET n == Min(Len(a), Len(b))
        diff == {i \in 1..n : a[i] # b[i]}
    IN  IF diff = {} THEN Len(a) < Len(b)
        ELSE LET i == CHOOSE x \in diff : \A y \in diff : x <= y
             IN  CodeUnit(a[i]) < CodeUnit(b[i])

JsLess(a, b) == a # Undefined /\ b # Undefined /\ StrLess(a, b)

\* a mutant: ascending order
CompareAscending(a, b) == IF JsLess(b.postedAt, a.postedAt) THEN 1 ELSE -1

\* the comparator of line 92
Compare(a, b) == IF JsLess(a.postedAt, b.postedAt) THEN 1 ELSE -1

(***************************************************************************)
(* Array.prototype.sort, part_002 line 92, as V8 (the engine of Node.js)   *)
(* runs it on an array of fewer than 64 elements: it finds the run the     *)
(* array starts with, reverses it when it is descending for the            *)
(* comparator, and inserts the remaining elements by binary insertion.     *)
(***************************************************************************)
Reverse(arr) == [i \in 1..Len(arr) |-> arr[Len(arr) + 1 - i]]

\* CountAndMakeRun: the length of the initial run
RunLength(arr) ==
    IF Len(arr) < 2 THEN Len(arr)
    ELSE LET isDescending == Compare(arr[2], arr[1]) < 0
             InRun(idx) == IF isDescending
                           THEN Compare(arr[idx], arr[idx - 1]) < 0
                           ELSE Compare(arr[idx], arr[idx - 1]) >= 0
             ends == {r \in 2..Len(arr) : \A idx \in 3..r : InRun(idx)}
         IN  CHOOSE r \in ends : \A x \in ends : x <= r

MakeRun(arr) ==
    IF Len(arr) < 2 THEN arr
    ELSE LET run == RunLength(arr)
         IN  IF Compare(arr[2], arr[1]) < 0
             THEN Reverse(SubSeq(arr, 1, run)) \o SubSeq(arr, run + 1, Len(arr))
             ELSE arr

\* the binary search of BinaryInsertionSort: where pivot goes in arr[left+1..right]
\* (left and right count the elements before the position, as in V8's 0-based code)
RECURSIVE InsertionPoint(_, _, _, _)
InsertionPoint(arr, pivot, left, right) ==
    IF left >= right THEN left
    ELSE LET mid == left + ((right - left) \div 2)
         IN  IF Compare(pivot, arr[mid + 1]) < 0
             THEN InsertionPoint(arr, pivot, left, mid)
             ELSE InsertionPoint(arr, pivot, mid + 1, right)

\* BinaryInsertionSort(low = 0, start, high = length); start counts the sorted prefix
RECURSIVE BinaryInsertionSort(_, _)
BinaryInsertionSort(arr, start) ==
    IF start >= Len(arr) THEN arr
    ELSE LET pivot == arr[start + 1]
             at == InsertionPoint(arr, pivot, 0, start)
             moved == SubSeq(arr, 1, at) \o <<pivot>> \o SubSeq(arr, at + 1, start)
                        \o SubSeq(arr, start + 2, Len(arr))
         IN  BinaryInsertionSort(moved, start + 1)

ArraySort(arr) ==
    IF Len(arr) < 2 THEN arr
    ELSE BinaryInsertionSort(MakeRun(arr), RunLength(arr))

(***************************************************************************)
(* getPosts, part_002 lines 62-93.                                         *)
(***************************************************************************)
EndsWithMd(fileName) ==
    /\ Len(fileName) >= 3
    /\ SubSeq(fileName, Len(fileName) - 2, Len(fileName)) = <<".", "m", "d">>

\* fileName.replace(/\.md$/, '')
StripMd(fileName) ==
    IF EndsWithMd(fileName) THEN SubSeq(fileName, 1, Len(fileName) - 3) ELSE fileName

\* a mutant: only markdown files are kept
KeepMarkdownOnly(fileName) == EndsWithMd(fileName)

\* the filter of line 66
KeepFile(fileName) == fileName # GitKeep

\* a mutant: the declared reading time wins when there is one
ReadTimeDeclaredFirst(file) ==
    IF file.data["readTimeInMinutes"] # Undefined
    THEN file.data["readTimeInMinutes"]
    ELSE toString(getReadingTimeInMinutes(file.content))

\* lines 83 and 112
ReadTime(file) == toString(getReadingTimeInMinutes(file.content))

\* the Post of lines 78-85
MakePost(id, file) ==
    [id |-> id,
     title |-> file.data["title"],
     description |-> file.data["description"],
     coverPath |-> file.data["coverPath"],
     readTimeInMinutes |-> ReadTime(file),
     postedAt |-> file.data["date"]]

\* the map of lines 67-89 over the kept file names, in order; it stops at
\* the first file whose parse throws: [threw, posts, cache]
postsDirectory == <<<<"s", "r", "c">>, <<"p", "o", "s", "t", "s">>>>

\* fs.readFileSync(fullPath, 'utf8') of line 73 returns
Readable(fileName) == (postsDirectory \o <<fileName>>) \notin unreadable

\* fs.readdirSync(postsDirectory) of line 64 returns
DirectoryReadable == postsDirectory \notin unreadable

RECURSIVE MapPosts(_, _, _)
MapPosts(fileNames, files, cache) ==
    IF fileNames = <<>>
    THEN [threw |-> FALSE, err |-> "", posts |-> <<>>, cache |-> cache]
    ELSE LET fileName == Head(fileNames)
             matterResult == Matter(files[fileName], cache)
         IN  IF ~Readable(fileName)
             THEN [threw |-> TRUE, err |-> "EISDIR", posts |-> <<>>, cache |-> cache]
             ELSE IF matterResult.threw
             THEN [threw |-> TRUE, err |-> "YAMLException", posts |-> <<>>,
                   cache |-> matterResult.cache]
             ELSE LET rest == MapPosts(Tail(fileNames), files, matterResult.cache)
                  IN  [threw |-> rest.threw,
                       err |-> rest.err,
                       posts |-> IF rest.threw THEN <<>>
                                 ELSE <<MakePost(StripMd(fileName), matterResult.file)>>
                                        \o rest.posts,
                       cache |-> rest.cache]

NoDetail == <<>>

Outcome(op, id, kind, err, posts, detail) ==
    [op |-> op, id |-> id, kind |-> kind, err |-> err, posts |-> posts, detail |-> detail]

\* one run of getPosts over a directory and a parser cache: [out, cache]
ListCall(fileNames, files, cache) ==
    LET mapped == MapPosts(SelectSeq(fileNames, KeepFile), files, cache)
    IN  IF ~DirectoryReadable
        THEN [cache |-> cache,
              out |-> Outcome("getPosts", <<>>, "error", "ENOENT", <<>>, NoDetail)]
        ELSE [cache |-> mapped.cache,
              out |-> IF mapped.threw
                      THEN Outcome("getPosts", <<>>, "error", mapped.err, <<>>, NoDetail)
                      ELSE Outcome("getPosts", <<>>, "ok", "", ArraySort(mapped.posts),
                                   NoDetail)]

getPosts ==
    LET call == ListCall(dir, store, matterCache)
    IN  /\ matterCache' = call.cache
        /\ ret' = call.out
        /\ UNCHANGED <<world, slugger, renders, promises, page, estIn, estOut, estPrev>>

(***************************************************************************)
(* path.join(postsDirectory, `${id}.md`), part_002 line 96: the segments   *)
(* are joined and the result is normalised, which drops empty and `.`      *)
(* segments and resolves `..` against the segment before it.               *)
(***************************************************************************)
\* the segments of a path between its `/` separators
RECURSIVE SplitSlash(_, _)
SplitSlash(chars, segment) ==
    IF chars = <<>> THEN <<segment>>
    ELSE IF Head(chars) = "/" THEN <<segment>> \o SplitSlash(Tail(chars), <<>>)
    ELSE SplitSlash(Tail(chars), Append(segment, Head(chars)))

RECURSIVE Normalize(_, _)
Normalize(segments, done) ==
    IF segments = <<>> THEN done
    ELSE LET seg == Head(segments)
         IN  IF seg = <<>> \/ seg = <<".">> THEN Normalize(Tail(segments), done)
             ELSE IF seg = <<".", ".">> /\ done # <<>> /\ done[Len(done)] # <<".", ".">>
             THEN Normalize(Tail(segments), SubSeq(done, 1, Len(done) - 1))
             ELSE Normalize(Tail(segments), Append(done, seg))

PathJoin(id) ==
    Normalize(postsDirectory \o SplitSlash(id \o <<".", "m", "d">>, <<>>), <<>>)

Exists(fullPath, fileNames) ==
    /\ Len(fullPath) = Len(postsDirectory) + 1
    /\ SubSeq(fullPath, 1, Len(postsDirectory)) = postsDirectory
    /\ \E i \in 1..Len(fileNames) : fileNames[i] = fullPath[Len(fullPath)]

(***************************************************************************)
(* The body of a post: the placeholder of line 103 and its replacement.    *)
(***************************************************************************)
Placeholder ==
    <<"{", "{", "N", "E", "X", "T", "_", "P", "U", "B", "L", "I", "C", "_",
      "B", "A", "S", "E", "_", "U", "R", "L", "}", "}">>

ExampleCom ==
    <<"h", "t", "t", "p", "s", ":", "/", "/",
      "e", "x", "a", "m", "p", "l", "e", ".", "c", "o", "m">>

\* the values the environment variable takes: an origin, and a URL whose
\* path holds the characters $&
BaseUrls == {ExampleCom, ExampleCom \o <<"/", "$", "&">>}

\* GetSubstitution of String.prototype.replaceAll for a string pattern:
\* in the replacement, $$ stands for $ and $& for the matched text
RECURSIVE GetSubstitution(_, _)
GetSubstitution(matched, replacement) ==
    IF replacement = <<>> THEN <<>>
    ELSE IF Len(replacement) >= 2 /\ SubSeq(replacement, 1, 2) = <<"$", "$">>
    THEN <<"$">> \o GetSubstitution(matched, SubSeq(replacement, 3, Len(replacement)))
    ELSE IF Len(replacement) >= 2 /\ SubSeq(replacement, 1, 2) = <<"$", "&">>
    THEN matched \o GetSubstitution(matched, SubSeq(replacement, 3, Len(replacement)))
    ELSE <<Head(replacement)>> \o GetSubstitution(matched, Tail(replacement))

\* where a pattern occurs in a text
IndexesOf(text, pattern) ==
    {i \in 1..(Len(text) + 1 - Len(pattern)) :
        SubSeq(text, i, i + Len(pattern) - 1) = pattern}

\* a mutant: String.prototype.replace, which replaces the first occurrence
ReplaceFirst(text, pattern, replacement) ==
    LET hits == IndexesOf(text, pattern)
    IN  IF hits = {} THEN text
        ELSE LET at == CHOOSE i \in hits : \A j \in hits : i <= j
             IN  SubSeq(text, 1, at - 1) \o GetSubstitution(pattern, replacement)
                    \o SubSeq(text, at + Len(pattern), Len(text))

\* String.prototype.replaceAll with a string pattern: the occurrences are
\* taken left to right, each search starting after the previous occurrence
RECURSIVE ReplaceAll(_, _, _)
ReplaceAll(text, pattern, replacement) ==
    LET hits == IndexesOf(text, pattern)
    IN  IF hits = {} THEN text
        ELSE LET at == CHOOSE i \in hits : \A j \in hits : i <= j
             IN  SubSeq(text, 1, at - 1) \o GetSubstitution(pattern, replacement)
                    \o ReplaceAll(SubSeq(text, at + Len(pattern), Len(text)),
                                  pattern, replacement)

(***************************************************************************)
(* marked.use(gfmHeadingId({ prefix: 'section' })), part_002 line 50: the  *)
(* extension keeps one slugger for the module, replaces it in its          *)
(* preprocess hook at the start of every parse, and renders a heading with *)
(* the id prefix + slugger.slug(text).  The slugger lowercases, drops      *)
(* punctuation, turns spaces into hyphens and numbers a slug it has        *)
(* already given out.                                                      *)
(***************************************************************************)
prefix == <<"s", "e", "c", "t", "i", "o", "n">>

UpperCase ==
    <<"A", "B", "C", "D", "E", "F", "G", "H", "I", "J", "K", "L", "M",
      "N", "O", "P", "Q", "R", "S", "T", "U", "V", "W", "X", "Y", "Z">>
LowerCase ==
    <<"a", "b", "c", "d", "e", "f", "g", "h", "i", "j", "k", "l", "m",
      "n", "o", "p", "q", "r", "s", "t", "u", "v", "w", "x", "y", "z">>

toLowerCase(text) ==
    [i \in 1..Len(text) |->
        IF \E k \in 1..26 : UpperCase[k] = text[i]
        THEN LowerCase[CHOOSE k \in 1..26 : UpperCase[k] = text[i]]
        ELSE text[i]]

\* the character U+0060, which a TLA+ string cannot hold
Backtick == "&grave;"

IsPunctuation(c) ==
    c \in {".", ",", ":", ";", "!", "?", "'", "(", ")", "{", "}", "/", "#", Backtick}

\* github-slugger's slug of a text, before numbering
RECURSIVE Slugify(_)
Slugify(text) ==
    IF text = <<>> THEN <<>>
    ELSE IF IsPunctuation(Head(text)) THEN Slugify(Tail(text))
    ELSE IF Head(text) = " " THEN <<"-">> \o Slugify(Tail(text))
    ELSE <<Head(text)>> \o Slugify(Tail(text))

NoOccurrences == <<>>

SetOccurrence(occurrences, slug, n) ==
    [x \in DOMAIN occurrences \cup {slug} |-> IF x = slug THEN n ELSE occurrences[x]]

\* the loop of GithubSlugger.slug: [slug, occurrences]
RECURSIVE Unique(_, _, _)
Unique(originalSlug, result, occurrences) ==
    IF result \in DOMAIN occurrences
    THEN LET n == occurrences[originalSlug] + 1
         IN  Unique(originalSlug, originalSlug \o <<"-">> \o toString(n),
                    SetOccurrence(occurrences, originalSlug, n))
    ELSE [slug |-> result, occurrences |-> SetOccurrence(occurrences, result, 0)]

\* a mutant: a slug is never numbered
SlugUnnumbered(raw, occurrences) ==
    [slug |-> Slugify(Trim(toLowerCase(raw))), occurrences |-> occurrences]

SluggerSlug(raw, occurrences) ==
    LET originalSlug == Slugify(Trim(toLowerCase(raw)))
    IN  Unique(originalSlug, originalSlug, occurrences)

\* a mutant: the slugger of the previous parse is kept
PreprocessKeep(occurrences) == occurrences

\* hooks.preprocess: slugger = new GithubSlugger()
Preprocess(occurrences) == NoOccurrences

(***************************************************************************)
(* markedHighlight, part_002 lines 52-60.  hljs.getLanguage knows the      *)
(* registered names whatever their case; hljs.highlight throws for a       *)
(* language it does not know.  The highlighted code is kept as the code    *)
(* after a mark that names the grammar used.                               *)
(***************************************************************************)
LangTs == <<"t", "s">>
LangBash == <<"b", "a", "s", "h">>
plaintext == <<"p", "l", "a", "i", "n", "t", "e", "x", "t">>
Registered == {LangTs, LangBash, plaintext}

hljsGetLanguage(lang) == toLowerCase(lang) \in Registered

hljsHighlight(code, language) ==
    [threw |-> ~hljsGetLanguage(language),
     value |-> <<"<hljs ">> \o toLowerCase(language) \o <<">">> \o code]

\* a mutant: the declared language is used as it is
HighlightDeclared(code, lang) == hljsHighlight(code, lang)

\* highlight(code, lang), lines 55-58
highlight(code, lang) ==
    LET language == IF hljsGetLanguage(lang) THEN lang ELSE plaintext
    IN  hljsHighlight(code, language)

(***************************************************************************)
(* marked(), part_002 line 114, on a body of ATX headings, fenced code     *)
(* blocks, block quotes of one line and paragraphs (runs of other          *)
(* non-blank lines); inline markup is kept as it is written.  Tags are     *)
(* single elements of the HTML text.                                       *)
(***************************************************************************)
RECURSIVE SplitLines(_)
SplitLines(chars) ==
    LET feeds == {i \in 1..Len(chars) : chars[i] = "\n"}
    IN  IF chars = <<>> THEN <<>>
        ELSE IF feeds = {} THEN <<chars>>
        ELSE LET at == CHOOSE i \in feeds : \A j \in feeds : i <= j
             IN  <<SubSeq(chars, 1, at - 1)>> \o SplitLines(SubSeq(chars, at + 1, Len(chars)))

\* the number of `#` an ATX heading line starts with, 0 for any other line
HeadingLevel(line) ==
    LET hashes == {n \in 1..Min(6, Len(line)) : \A i \in 1..n : line[i] = "#"}
        level == IF hashes = {} THEN 0 ELSE CHOOSE n \in hashes : \A m \in hashes : m <= n
    IN  IF level > 0 /\ (Len(line) = level \/ IsWs(line[level + 1])) /\ level <= 6
           /\ (Len(line) <= 6 \/ level < 6 \/ line[7] # "#")
        THEN level ELSE 0

HeadingText(line) == Trim(SubSeq(line, HeadingLevel(line) + 1, Len(line)))

OpenHeading(level) ==
    <<"<h1 id=\"", "<h2 id=\"", "<h3 id=\"", "<h4 id=\"", "<h5 id=\"", "<h6 id=\"">>[level]
CloseHeading(level) == <<"</h1>", "</h2>", "</h3>", "</h4>", "</h5>", "</h6>">>[level]

IsFence(line) == Len(line) >= 3 /\ SubSeq(line, 1, 3) = <<Backtick, Backtick, Backtick>>

\* the language of a fence: the first word of its info string
FenceLang(line) ==
    LET info == Trim(SubSeq(line, 4, Len(line)))
        stops == {i \in 1..Len(info) : IsWs(info[i])}
    IN  IF stops = {} THEN info
        ELSE SubSeq(info, 1, (CHOOSE i \in stops : \A j \in stops : i <= j) - 1)

\* the lines of a fenced block: up to the next fence line, or all that is left
FenceEnd(lines) ==
    LET ends == {i \in 1..Len(lines) : IsFence(lines[i])}
    IN  IF ends = {} THEN Len(lines) + 1 ELSE CHOOSE i \in ends : \A j \in ends : i <= j

RECURSIVE JoinText(_)
JoinText(lines) ==
    IF lines = <<>> THEN <<>> ELSE Head(lines) \o <<"\n">> \o JoinText(Tail(lines))

CodeHtml(lang, value) ==
    (IF lang = <<>> THEN <<"<pre><code>">>
     ELSE <<"<pre><code class=\"hljs language-">> \o lang \o <<"\">">>)
        \o value \o <<"</code></pre>", "\n">>

\* the levels of a block quote line: the `>` it starts with
QuoteDepth(line) ==
    LET others == {i \in 1..Len(line) : line[i] # ">"}
    IN  IF others = {} THEN Len(line)
        ELSE (CHOOSE i \in others : \A j \in others : i <= j) - 1

\* a block quote of one line: the lexer and the parser recurse once for
\* every level, and a nesting deeper than the call stack holds throws
QuoteHtml(line) ==
    [i \in 1..(2 * QuoteDepth(line)) |->
        IF i % 2 = 1 THEN "<blockquote>" ELSE "\n"]
        \o <<"<p>">> \o Trim(SubSeq(line, QuoteDepth(line) + 1, Len(line)))
        \o <<"</p>", "\n">>
        \o [i \in 1..(2 * QuoteDepth(line)) |->
                IF i % 2 = 1 THEN "</blockquote>" ELSE "\n"]

\* the blocks of a body: [threw, html, occurrences]
RECURSIVE Blocks(_, _, _)
Blocks(lines, open, occurrences) ==
    LET close == IF open = <<>> THEN <<>> ELSE <<"<p>">> \o open \o <<"</p>", "\n">>
    IN  IF lines = <<>>
        THEN [threw |-> FALSE, html |-> close, occurrences |-> occurrences]
        ELSE IF IsBlank(Head(lines))
        THEN LET rest == Blocks(Tail(lines), <<>>, occurrences)
             IN  [rest EXCEPT !.html = close \o @]
        ELSE IF IsFence(Head(lines))
        THEN LET end == FenceEnd(Tail(lines))
                 lang == FenceLang(Head(lines))
                 code == highlight(JoinText(SubSeq(Tail(lines), 1, end - 1)), lang)
                 rest == Blocks(SubSeq(Tail(lines), end + 1, Len(lines) - 1), <<>>,
                                occurrences)
             IN  [rest EXCEPT !.threw = code.threw \/ @,
                              !.html = close \o CodeHtml(lang, code.value) \o @]
        ELSE IF QuoteDepth(Head(lines)) > 0
        THEN LET rest == Blocks(Tail(lines), <<>>, occurrences)
             IN  [rest EXCEPT !.threw = QuoteDepth(Head(lines)) > StackDepth \/ @,
                              !.html = close \o QuoteHtml(Head(lines)) \o @]
        ELSE IF HeadingLevel(Head(lines)) > 0
        THEN LET level == HeadingLevel(Head(lines))
                 text == HeadingText(Head(lines))
                 slug == SluggerSlug(text, occurrences)
                 rest == Blocks(Tail(lines), <<>>, slug.occurrences)
             IN  [rest EXCEPT !.html =
                     close \o <<OpenHeading(level)>> \o prefix \o slug.slug \o <<"\">">>
                        \o text \o <<CloseHeading(level), "\n">> \o @]
        ELSE Blocks(Tail(lines),
                    IF open = <<>> THEN Trim(Head(lines))
                    ELSE open \o <<"\n">> \o Trim(Head(lines)),
                    occurrences)

\* a mutant: what could be rendered is returned
MarkedBestEffort(text, occurrences) ==
    [Blocks(SplitLines(text), <<>>, NoOccurrences) EXCEPT !.threw = FALSE]

\* marked(src): the preprocess hook, then the blocks; the code is highlighted
\* before anything is rendered, so nothing is rendered when that throws
marked(text, occurrences) ==
    LET run == Blocks(SplitLines(text), <<>>, Preprocess(occurrences))
    IN  IF run.threw
        THEN [threw |-> TRUE, html |-> <<>>, occurrences |-> Preprocess(occurrences)]
        ELSE run

(***************************************************************************)
(* getPostWithHtmlContent, part_002 lines 95-118.                          *)
(***************************************************************************)
Ids == {<<"a">>, <<"b">>, <<"a", ".", "m", "d">>, <<".", "/", "a">>}

\* a mutant: the content as it is written
ContentAsWritten(content) == content

\* line 102-105
ContentWithReplacedBaseUrl(content) ==
    ReplaceAll(content, Placeholder, NEXT_PUBLIC_BASE_URL)

MakePostWithHtmlContent(id, file, html) ==
    [id |-> id,
     title |-> file.data["title"],
     description |-> file.data["description"],
     coverPath |-> file.data["coverPath"],
     readTimeInMinutes |-> ReadTime(file),
     postedAt |-> file.data["date"],
     htmlContent |-> html]

\* one run of getPostWithHtmlContent(id): [out, cache, occurrences]
DetailCall(id, fileNames, files, cache, occurrences) ==
    LET fullPath == PathJoin(id)
        Failed(err) == Outcome("getPostWithHtmlContent", id, "error", err, <<>>, NoDetail)
    IN  IF ~Exists(fullPath, fileNames)
        THEN [out |-> Failed("ENOENT"), cache |-> cache, occurrences |-> occurrences]
        ELSE IF ~Readable(fullPath[Len(fullPath)])
        THEN [out |-> Failed("EISDIR"), cache |-> cache, occurrences |-> occurrences]
        ELSE LET fileContents == files[fullPath[Len(fullPath)]]
                 matterResult == Matter(fileContents, cache)
             IN  IF matterResult.threw
                 THEN [out |-> Failed("YAMLException"), cache |-> matterResult.cache,
                       occurrences |-> occurrences]
                 ELSE LET rendered ==
                            marked(ContentWithReplacedBaseUrl(matterResult.file.content),
                                   occurrences)
                      IN  [out |-> IF rendered.threw THEN Failed("Error")
                                   ELSE Outcome("getPostWithHtmlContent", id, "ok", "", <<>>,
                                            <<MakePostWithHtmlContent(
                                                id, matterResult.file, rendered.html)>>),
                           cache |-> matterResult.cache,
                           occurrences |-> rendered.occurrences]

\* the record of renders: none is kept, or the last three ids
NotKept == <<>>
NoRenders == <<<<>>, <<>>, <<>>>>
Rendered(id, out, kept) ==
    IF kept = NotKept \/ out.kind # "ok" THEN kept ELSE <<id, kept[1], kept[2]>>

getPostWithHtmlContent(id) ==
    LET call == DetailCall(id, dir, store, matterCache, slugger)
    IN  /\ matterCache' = call.cache
        /\ slugger' = call.occurrences
        /\ renders' = Rendered(id, call.out, renders)
        /\ ret' = call.out
        /\ UNCHANGED <<world, promises, page, estIn, estOut, estPrev>>

(***************************************************************************)
(* The single-post page, src/app/posts/[slug]/page.tsx: every function     *)
(* lists the posts and looks for the one whose id is the slug.  Post has   *)
(* one await, on the call it makes last, so it runs to that call's end     *)
(* when it is called.  The outcome of a function keeps its local variable  *)
(* posts (listed: getPosts returned) and the paths getPostWithHtmlContent  *)
(* was made to read.                                                       *)
(***************************************************************************)
PageOutcome(fn, slug, kind, err, listed, posts, value, reads) ==
    [fn |-> fn, slug |-> slug, kind |-> kind, err |-> err, listed |-> listed,
     posts |-> posts, value |-> value, reads |-> reads]

NoPage == PageOutcome("none", <<>>, "none", "", FALSE, <<>>, <<>>, <<>>)

\* a mutant: the first post, whatever its id
FindFirst(posts, slug) == IF posts = <<>> THEN 0 ELSE 1

\* posts.find((post) => post.id === params.slug): its index, 0 for undefined
Find(posts, slug) ==
    LET hits == {i \in 1..Len(posts) : posts[i].id = slug}
    IN  IF hits = {} THEN 0 ELSE CHOOSE i \in hits : \A j \in hits : i <= j

\* a mutant: the titles of the posts
StaticParamsOfTitles(posts) == [i \in 1..Len(posts) |-> [slug |-> posts[i].title]]

\* posts.map((post) => ({ slug: post.id })), lines 16-18
StaticParams(posts) == [i \in 1..Len(posts) |-> [slug |-> posts[i].id]]

\* generateStaticParams, lines 13-19, with the outcome of its getPosts
StaticParamsOver(list) ==
        [cache |-> list.cache,
         inner |-> list.out,
         out |-> IF list.out.kind = "error"
                 THEN PageOutcome("generateStaticParams", <<>>, "error", list.out.err,
                                  FALSE, <<>>, <<>>, <<>>)
                 ELSE PageOutcome("generateStaticParams", <<>>, "ok", "", TRUE,
                                  list.out.posts, StaticParams(list.out.posts), <<>>)]

\* generateStaticParams: [out, cache]
StaticParamsCall(fileNames, files, cache) ==
    CHOOSE call \in {StaticParamsOver(list) :
                        list \in {ListCall(fileNames, files, cache)}} : TRUE

NotFoundTitle ==
    <<"B", "l", "o", "g", " ", "p", "o", "s", "t", " ",
      "n", "o", "t", " ", "f", "o", "u", "n", "d", ".">>

\* a value in a template literal
Interpolated(value) ==
    IF value = Undefined THEN <<"u", "n", "d", "e", "f", "i", "n", "e", "d">> ELSE value

\* the object of lines 32-47 (the width and the height of the image left out)
Metadata(post) ==
    [title |-> post.title,
     description |-> post.description,
     url |-> NEXT_PUBLIC_BASE_URL \o <<"/", "p", "o", "s", "t", "s", "/">> \o post.id,
     image |-> NEXT_PUBLIC_BASE_URL \o Interpolated(post.coverPath)]

\* generateMetadata, lines 21-48, with the outcome of its getPosts
MetadataOver(slug, list) ==
    LET posts == list.out.posts
    IN  [cache |-> list.cache,
         inner |-> list.out,
         out |-> IF list.out.kind = "error"
                 THEN PageOutcome("generateMetadata", slug, "error", list.out.err,
                                  FALSE, <<>>, <<>>, <<>>)
                 ELSE IF Find(posts, slug) = 0
                 THEN PageOutcome("generateMetadata", slug, "ok", "", TRUE, posts,
                                  <<[title |-> NotFoundTitle]>>, <<>>)
                 ELSE PageOutcome("generateMetadata", slug, "ok", "", TRUE, posts,
                                  <<Metadata(posts[Find(posts, slug)])>>, <<>>)]

\* generateMetadata: [out, cache]
MetadataCall(slug, fileNames, files, cache) ==
    CHOOSE call \in {MetadataOver(slug, list) :
                        list \in {ListCall(fileNames, files, cache)}} : TRUE

\* Post, lines 59-87, with the post that was found and the outcome of its
\* getPostWithHtmlContent
PostRendered(slug, posts, post, detail) ==
    [cache |-> detail.cache, occurrences |-> detail.occurrences,
     inner |-> detail.out,
     out |-> IF detail.out.kind = "error"
             THEN PageOutcome("Post", slug, "error", detail.out.err, TRUE, posts,
                              <<>>, <<PathJoin(post.id)>>)
             ELSE PageOutcome("Post", slug, "rendered", "", TRUE, posts,
                              <<[post |-> post,
                                 postWithHtmlContent |-> detail.out.detail[1]]>>,
                              <<PathJoin(post.id)>>)]

\* Post, lines 50-87, with the outcome of its getPosts
PostOver(slug, list, fileNames, files, occurrences) ==
    LET posts == list.out.posts
        post == posts[Find(posts, slug)]
    IN  IF list.out.kind = "error"
        THEN [cache |-> list.cache, occurrences |-> occurrences, inner |-> list.out,
              out |-> PageOutcome("Post", slug, "error", list.out.err, FALSE, <<>>,
                                  <<>>, <<>>)]
        ELSE IF Find(posts, slug) = 0
        THEN [cache |-> list.cache, occurrences |-> occurrences, inner |-> list.out,
              out |-> PageOutcome("Post", slug, "notFound", "", TRUE, posts, <<>>, <<>>)]
        ELSE CHOOSE call \in
                {PostRendered(slug, posts, post, detail) :
                    detail \in {DetailCall(post.id, fileNames, files, list.cache,
                                           occurrences)}} : TRUE

\* Post: [out, cache, occurrences]
PostCall(slug, fileNames, files, cache, occurrences) ==
    CHOOSE call \in {PostOver(slug, list, fileNames, files, occurrences) :
                        list \in {ListCall(fileNames, files, cache)}} : TRUE

generateStaticParams ==
    \E call \in {StaticParamsCall(dir, store, matterCache)} :
        /\ matterCache' = call.cache
        /\ ret' = call.inner
        /\ page' = call.out
        /\ UNCHANGED <<world, slugger, renders, promises, estIn, estOut, estPrev>>

generateMetadata(slug) ==
    \E call \in {MetadataCall(slug, dir, store, matterCache)} :
        /\ matterCache' = call.cache
        /\ ret' = call.inner
        /\ page' = call.out
        /\ UNCHANGED <<world, slugger, renders, promises, estIn, estOut, estPrev>>

Post(slug) ==
    \E call \in {PostCall(slug, dir, store, matterCache, slugger)} :
        /\ matterCache' = call.cache
        /\ slugger' = call.occurrences
        /\ renders' = IF call.out.reads = <<>> THEN renders
                      ELSE Rendered(call.inner.id, call.inner, renders)
        /\ ret' = call.inner
        /\ page' = call.out
        /\ UNCHANGED <<world, promises, estIn, estOut, estPrev>>

(***************************************************************************)
(* The home page, src/app/page.tsx: the first posts of the listing, under  *)
(* the heading 'Recent posts' when there is one.                           *)
(***************************************************************************)
RecentCount == 3

\* a mutant: the last posts of the array
SliceFromEnd(array, start, end) ==
    SubSeq(array, Len(array) - Min(end - start, Len(array)) + 1, Len(array))

\* array.slice(start, end), for 0 <= start <= end
Slice(array, start, end) == SubSeq(array, start + 1, Min(end, Len(array)))

\* what lines 53-60 render of the recent posts: nothing, or the section
RecentSection(recentPosts) ==
    IF Len(recentPosts) > 0
    THEN <<[heading |-> "Recent posts", previews |-> recentPosts]>>
    ELSE <<>>

\* Home, with the outcome of its getPosts
HomeOver(list) ==
    LET recentPosts == Slice(list.out.posts, 0, RecentCount)
    IN  [cache |-> list.cache,
         inner |-> list.out,
         out |-> IF list.out.kind = "error"
                 THEN PageOutcome("Home", <<>>, "error", list.out.err, FALSE, <<>>,
                                  <<>>, <<>>)
                 ELSE PageOutcome("Home", <<>>, "ok", "", TRUE, list.out.posts,
                                  RecentSection(recentPosts), <<>>)]

\* Home: [out, cache]
HomeCall(fileNames, files, cache) ==
    CHOOSE call \in {HomeOver(list) : list \in {ListCall(fileNames, files, cache)}} : TRUE

Home ==
    \E call \in {HomeCall(dir, store, matterCache)} :
        /\ matterCache' = call.cache
        /\ ret' = call.inner
        /\ page' = call.out
        /\ UNCHANGED <<world, slugger, renders, promises, estIn, estOut, estPrev>>

(***************************************************************************)
(* The repository: a process starts over some posts directory, with an     *)
(* empty parser cache, and serves getPosts and getPostWithHtmlContent.     *)
(***************************************************************************)
Range(f) == {f[x] : x \in DOMAIN f}

Dirs ==
    {d \in UNION {[1..n -> FileNames] : n \in 0..MaxFiles} :
        \A i, j \in 1..Len(d) : i # j => d[i] # d[j]}

NoCall == Outcome("none", <<>>, "none", "", <<>>, NoDetail)


Init ==
    /\ dir \in Dirs
    /\ store \in [Range(dir) -> Docs \cup {DocEmpty}]
    /\ \A f \in Range(dir) : (f = GitKeep) <=> (store[f] = DocEmpty)
    /\ NEXT_PUBLIC_BASE_URL = ExampleCom
    /\ unreadable = {}
    /\ matterCache = {}
    /\ slugger = NoOccurrences
    /\ renders = NotKept
    /\ promises = <<>>
    /\ ret = NoCall
    /\ page = NoPage
    /\ estIn = <<>>
    /\ estOut = <<>>
    /\ estPrev = <<>>

Next ==
    \/ getPosts
    \/ \E id \in Ids : getPostWithHtmlContent(id)

Spec == Init /\ [][Next]_vars

(***************************************************************************)
(* The same calls over posts with headings, fenced code and placeholders,  *)
(* under each value of the environment variable.                           *)
(***************************************************************************)
RenderDirs == {<<FileAMd>>, <<FileAMd, FileBMd>>, <<FileBMd, FileAMd>>}

InitRender ==
    /\ NEXT_PUBLIC_BASE_URL \in BaseUrls
    /\ unreadable = {}
    /\ dir \in RenderDirs
    /\ store \in [Range(dir) -> RenderDocs]
    /\ matterCache = {}
    /\ slugger = NoOccurrences
    /\ renders = NoRenders
    /\ promises = <<>>
    /\ ret = NoCall
    /\ page = NoPage
    /\ estIn = <<>>
    /\ estOut = <<>>
    /\ estPrev = <<>>

SpecRender == InitRender /\ [][Next]_vars

(***************************************************************************)
(* The posts directory changed between calls: a file is written (a new     *)
(* one, at any place of the enumeration, or an old one with a new          *)
(* content) or removed.  Lines 64 and 73/97 read what is there when they   *)
(* run.                                                                    *)
(***************************************************************************)
StoreFiles == {FileAMd, FileBMd}
StoreDocs == {DocOld, DocNew, DocOpenBody}

WriteFile(f, doc) ==
    /\ IF f \in Range(dir)
       THEN /\ dir' = dir
            /\ store' = [store EXCEPT ![f] = doc]
       ELSE /\ \E i \in 0..Len(dir) :
                    dir' = SubSeq(dir, 1, i) \o <<f>> \o SubSeq(dir, i + 1, Len(dir))
            /\ store' = [g \in Range(dir) \cup {f} |-> IF g = f THEN doc ELSE store[g]]
    /\ UNCHANGED <<NEXT_PUBLIC_BASE_URL, unreadable, matterCache, slugger, renders,
                   promises, ret, page, estIn, estOut, estPrev>>

RemoveFile(f) ==
    /\ f \in Range(dir)
    /\ dir' = SelectSeq(dir, LAMBDA g : g # f)
    /\ store' = [g \in Range(dir) \ {f} |-> store[g]]
    /\ UNCHANGED <<NEXT_PUBLIC_BASE_URL, unreadable, matterCache, slugger, renders,
                   promises, ret, page, estIn, estOut, estPrev>>

InitStore ==
    /\ NEXT_PUBLIC_BASE_URL = ExampleCom
    /\ unreadable = {}
    /\ dir \in {d \in Dirs : Range(d) \subseteq StoreFiles}
    /\ store \in [Range(dir) -> StoreDocs]
    /\ matterCache = {}
    /\ slugger = NoOccurrences
    /\ renders = NotKept
    /\ promises = <<>>
    /\ ret = NoCall
    /\ page = NoPage
    /\ estIn = <<>>
    /\ estOut = <<>>
    /\ estPrev = <<>>

NextStore ==
    \/ getPosts
    \/ \E id \in Ids : getPostWithHtmlContent(id)
    \/ \E f \in StoreFiles, doc \in StoreDocs : WriteFile(f, doc)
    \/ \E f \in StoreFiles : RemoveFile(f)

SpecStore == InitStore /\ [][NextStore]_vars

\* the page of one post, over stores a process can meet in its life
Slugs == Ids

InitPages ==
    /\ NEXT_PUBLIC_BASE_URL = ExampleCom
    /\ unreadable = {}
    /\ dir \in Dirs
    /\ store \in [Range(dir) -> StoreDocs \cup {DocEmpty}]
    /\ \A f \in Range(dir) : (f = GitKeep) <=> (store[f] = DocEmpty)
    /\ matterCache = {}
    /\ slugger = NoOccurrences
    /\ renders = NotKept
    /\ promises = <<>>
    /\ ret = NoCall
    /\ page = NoPage
    /\ estIn = <<>>
    /\ estOut = <<>>
    /\ estPrev = <<>>

NextPages ==
    \/ generateStaticParams
    \/ \E slug \in Slugs : generateMetadata(slug)
    \/ \E slug \in Slugs : Post(slug)

SpecPages == InitPages /\ [][NextPages]_vars

\* the home page, over directories of more posts than it shows
FileCMd == <<"c", ".", "m", "d">>
FileDMd == <<"d", ".", "m", "d">>
HomeFiles == {FileAMd, FileBMd, FileCMd, FileDMd}
HomeDocs == {DocOld, DocNew, DocNoDate}
HomeDirs ==
    {d \in UNION {[1..n -> HomeFiles] : n \in 0..Cardinality(HomeFiles)} :
        \A i, j \in 1..Len(d) : i # j => d[i] # d[j]}

InitHome ==
    /\ NEXT_PUBLIC_BASE_URL = ExampleCom
    /\ unreadable = {}
    /\ dir \in HomeDirs
    /\ store \in [Range(dir) -> HomeDocs]
    /\ matterCache = {}
    /\ slugger = NoOccurrences
    /\ renders = NotKept
    /\ promises = <<>>
    /\ ret = NoCall
    /\ page = NoPage
    /\ estIn = <<>>
    /\ estOut = <<>>
    /\ estPrev = <<>>

SpecHome == InitHome /\ [][Home]_vars

(***************************************************************************)
(* The calls over a posts directory that is missing, or that has entries   *)
(* which are directories: fs.readdirSync and fs.readFileSync throw.        *)
(***************************************************************************)
InitFail ==
    /\ NEXT_PUBLIC_BASE_URL = ExampleCom
    /\ dir \in {d \in Dirs : Range(d) \subseteq StoreFiles}
    /\ unreadable \in SUBSET ({postsDirectory} \cup {postsDirectory \o <<f>> : f \in Range(dir)})
    /\ postsDirectory \in unreadable => dir = <<>>
    /\ store \in [Range(dir) -> StoreDocs \cup {DocEmpty}]
    /\ \A f \in Range(dir) : (~Readable(f)) <=> (store[f] = DocEmpty)
    /\ matterCache = {}
    /\ slugger = NoOccurrences
    /\ renders = NotKept
    /\ promises = <<>>
    /\ ret = NoCall
    /\ page = NoPage
    /\ estIn = <<>>
    /\ estOut = <<>>
    /\ estPrev = <<>>

SpecFail == InitFail /\ [][Next]_vars

(***************************************************************************)
(* Callers in one process.  getPosts is synchronous and the body of        *)
(* getPostWithHtmlContent has no await, so a call runs to its end when it  *)
(* is made; what interleaves is the calls of one caller with the calls of  *)
(* the others and with the moments the callers take their results.         *)
(***************************************************************************)
Callers == {"c1", "c2"}

CallGetPosts(c) ==
    LET call == ListCall(dir, store, matterCache)
    IN  /\ promises[c] = <<>>
        /\ matterCache' = call.cache
        /\ promises' = [promises EXCEPT ![c] = <<call.out>>]
        /\ UNCHANGED <<world, slugger, renders, ret, page, estIn, estOut, estPrev>>

CallGetPostWithHtmlContent(c, id) ==
    LET call == DetailCall(id, dir, store, matterCache, slugger)
    IN  /\ promises[c] = <<>>
        /\ matterCache' = call.cache
        /\ slugger' = call.occurrences
        /\ renders' = Rendered(id, call.out, renders)
        /\ promises' = [promises EXCEPT ![c] = <<call.out>>]
        /\ UNCHANGED <<world, ret, page, estIn, estOut, estPrev>>

\* the caller takes the result of its call
Await(c) ==
    /\ promises[c] # <<>>
    /\ ret' = promises[c][1]
    /\ promises' = [promises EXCEPT ![c] = <<>>]
    /\ UNCHANGED <<world, matterCache, slugger, renders, page, estIn, estOut, estPrev>>

InitConc ==
    /\ NEXT_PUBLIC_BASE_URL = ExampleCom
    /\ unreadable = {}
    /\ dir \in {d \in Dirs : Range(d) \subseteq StoreFiles}
    /\ store \in [Range(dir) -> StoreDocs]
    /\ matterCache = {}
    /\ slugger = NoOccurrences
    /\ renders = NotKept
    /\ promises = [c \in Callers |-> <<>>]
    /\ ret = NoCall
    /\ page = NoPage
    /\ estIn = <<>>
    /\ estOut = <<>>
    /\ estPrev = <<>>

NextConc ==
    \/ \E c \in Callers : CallGetPosts(c)
    \/ \E c \in Callers, id \in Ids : CallGetPostWithHtmlContent(c, id)
    \/ \E c \in Callers : Await(c)

SpecConc == InitConc /\ [][NextConc]_vars

(***************************************************************************)
(* The estimator on its own: a text is chosen, the estimator is applied,   *)
(* and the word count and result are kept when the next text is chosen.    *)
(***************************************************************************)
Estimate ==
    /\ estOut = <<>>
    /\ estOut' = <<getReadingTimeInMinutes(estIn)>>
    /\ UNCHANGED <<world, matterCache, slugger, renders, promises, ret, page, estIn, estPrev>>

NewText ==
    /\ estOut # <<>>
    /\ estPrev' = <<[w |-> WordCount(estIn), m |-> estOut[1]]>>
    /\ estIn' \in Texts
    /\ estOut' = <<>>
    /\ UNCHANGED <<world, matterCache, slugger, renders, promises, ret, page>>

InitEst ==
    /\ dir = <<>>
    /\ store = <<>>
    /\ NEXT_PUBLIC_BASE_URL = ExampleCom
    /\ unreadable = {}
    /\ matterCache = {}
    /\ slugger = NoOccurrences
    /\ renders = NotKept
    /\ promises = <<>>
    /\ ret = NoCall
    /\ page = NoPage
    /\ estIn \in Texts
    /\ estOut = <<>>
    /\ estPrev = <<>>

NextEst ==
    \/ Estimate
    \/ NewText

SpecEst == InitEst /\ [][NextEst]_vars

(***************************************************************************)
(* Properties.                                                             *)
(***************************************************************************)
Listed == ret.op = "getPosts" /\ ret.kind = "ok"
Detailed == ret.op = "getPostWithHtmlContent" /\ ret.kind = "ok"

\* the files of the directory other than the keep-alive file, in enumeration order
PostFiles ==
    LET IsPostFile(f) == f # <<".", "g", "i", "t", "k", "e", "e", "p">>
    IN  SelectSeq(dir, IsPostFile)

\* the summaries in enumeration order, before the sort (after a listing every
\* document is in the parser cache, with the file object the listing used)
Enumerated ==
    [i \in 1..Len(PostFiles) |->
        MakePost(StripMd(PostFiles[i]), CachedFile(store[PostFiles[i]]))]

Count(x, seq) == Cardinality({i \in 1..Len(seq) : seq[i] = x})

\* a >= b for two strings
StrGe(a, b) == a # Undefined /\ b # Undefined /\ ~StrLess(a, b)

AllDated(posts) == \A i \in 1..Len(posts) : posts[i].postedAt # Undefined

\* C1 as stated: the listing is ordered by postedAt descending under string
\* comparison, for every set of documents and every enumeration order.
C1_OrderedAlways ==
    Listed =>
        \A i, j \in 1..Len(ret.posts) :
            i < j => StrGe(ret.posts[i].postedAt, ret.posts[j].postedAt)

\* C1 amended: when every listed post has a postedAt string (every document
\* declares a date), the listing is ordered by postedAt descending.
C1_OrderedWhenDated ==
    (Listed /\ AllDated(ret.posts)) =>
        \A i, j \in 1..Len(ret.posts) :
            i < j => StrGe(ret.posts[i].postedAt, ret.posts[j].postedAt)

\* three dated posts, enumerated oldest first, listed newest first
C1_Witness ==
    /\ Listed
    /\ Len(ret.posts) = 3
    /\ AllDated(ret.posts)
    /\ StrLess(Enumerated[1].postedAt, Enumerated[3].postedAt)
    /\ StrLess(ret.posts[3].postedAt, ret.posts[1].postedAt)

\* C2: posts of equal postedAt are listed in the order their files were
\* enumerated: for every date, the listed posts of that date are the
\* enumerated posts of that date, in the same order.
C2_TiesInEnumerationOrder ==
    Listed =>
        \A k \in 1..Len(ret.posts) :
            LET SameDate(p) == p.postedAt = ret.posts[k].postedAt
            IN  SelectSeq(ret.posts, SameDate) = SelectSeq(Enumerated, SameDate)

\* C3: a listing holds exactly one summary for every file other than
\* .gitkeep: as many as there are such files, each file's summary as often as
\* files have it, none for .gitkeep.
C3_OnePerFile ==
    Listed =>
        /\ Len(ret.posts) = Len(PostFiles)
        /\ \A i \in 1..Len(Enumerated) :
               Count(Enumerated[i], ret.posts) = Count(Enumerated[i], Enumerated)
        /\ \A i \in 1..Len(ret.posts) :
               /\ ret.posts[i].id # <<".", "g", "i", "t", "k", "e", "e", "p">>
               /\ Count(ret.posts[i], Enumerated) > 0

\* a directory with .gitkeep and two documents, of which one has no extension
C3_Witness ==
    /\ Listed
    /\ Len(dir) = 3
    /\ \E i \in 1..3 : dir[i] = GitKeep
    /\ \E i \in 1..3 : dir[i] = FileA
    /\ Len(ret.posts) = 2

\* C4: the ids of a listing are pairwise distinct.
C4_IdsDistinct ==
    Listed =>
        \A i, j \in 1..Len(ret.posts) : i # j => ret.posts[i].id # ret.posts[j].id

\* C5: getPostWithHtmlContent with an id that is the id of no document fails
\* with a not-found error and returns no detail.
C5_UnknownIdNotFound ==
    (/\ ret.op = "getPostWithHtmlContent"
     /\ \A i \in 1..Len(PostFiles) : StripMd(PostFiles[i]) # ret.id)
        => (ret.kind = "error" /\ ret.err = "ENOENT" /\ ret.detail = NoDetail)

\* the body of a document: the text after the closing marker (what the parser
\* yields as content, for a document without both markers)
BodyOf(doc) ==
    IF HasOpen(doc) /\ \E i \in 2..Len(doc) : doc[i].t = "delim"
    THEN LET close == CHOOSE i \in 2..Len(doc) :
                        /\ doc[i].t = "delim"
                        /\ \A j \in 2..(i - 1) : doc[j].t # "delim"
         IN  JoinLines(SubSeq(doc, close + 1, Len(doc)))
    ELSE CachedFile(doc).content

\* C6: readTimeInMinutes of every listed post and of every detail is the
\* estimator's result for the body of its document, whatever the front
\* matter declares.
C6_ReadTimeRecomputed ==
    /\ Listed =>
        \A i \in 1..Len(ret.posts) :
            \E k \in 1..Len(PostFiles) :
                /\ StripMd(PostFiles[k]) = ret.posts[i].id
                /\ CachedFile(store[PostFiles[k]]).data["title"] = ret.posts[i].title
                /\ ret.posts[i].readTimeInMinutes =
                       toString(getReadingTimeInMinutes(BodyOf(store[PostFiles[k]])))
    /\ Detailed =>
        LET fullPath == PathJoin(ret.id)
        IN  ret.detail[1].readTimeInMinutes =
                toString(getReadingTimeInMinutes(BodyOf(store[fullPath[Len(fullPath)]])))

\* a listed post whose document declares a reading time of 5 and has two words
C6_Witness ==
    /\ Listed
    /\ \E i \in 1..Len(ret.posts) :
           /\ ret.posts[i].title = <<"M">>
           /\ ret.posts[i].readTimeInMinutes = <<"1">>

Estimated == estOut # <<>>

\* C7: a text of w >= 1 words is estimated at ceil(w / 200) minutes: 200 * n
\* words at n, 200 * n + 1 words at n + 1.
C7_CeilingOfWords ==
    (Estimated /\ WordCount(estIn) >= 1) =>
        /\ estOut[1] = CeilDiv(WordCount(estIn), 200)
        /\ \A n \in 1..(MaxMinutes + 1) :
               /\ WordCount(estIn) = 200 * n => estOut[1] = n
               /\ WordCount(estIn) = 200 * n + 1 => estOut[1] = n + 1

\* 201 words between leading and trailing whitespace: 2 minutes
C7_Witness ==
    /\ Estimated
    /\ WordCount(estIn) = 201
    /\ IsWs(estIn[1])
    /\ IsWs(estIn[Len(estIn)])
    /\ estOut = <<2>>

IsDigit(c) == c \in {"0", "1", "2", "3", "4", "5", "6", "7", "8", "9"}

DigitValue(c) == CHOOSE d \in 0..9 : Digit(d) = c

RECURSIVE Decimal(_)
Decimal(digits) ==
    IF digits = <<>> THEN 0
    ELSE 10 * Decimal(SubSeq(digits, 1, Len(digits) - 1)) + DigitValue(digits[Len(digits)])

\* C8: the estimate of every text, the empty and the blank ones included, is
\* an integer >= 1, and its string is the decimal encoding of that integer.
C8_PositiveInteger ==
    Estimated =>
        /\ estOut[1] \in Nat
        /\ estOut[1] >= 1
        /\ LET encoded == toString(estOut[1])
           IN  /\ Len(encoded) >= 1
               /\ \A i \in 1..Len(encoded) : IsDigit(encoded[i])
               /\ encoded[1] # "0"
               /\ Decimal(encoded) = estOut[1]

\* a text of whitespace alone: 1 minute
C8_Witness ==
    /\ Estimated
    /\ Len(estIn) >= 1
    /\ IsBlank(estIn)
    /\ estOut = <<1>>

\* C9: of two texts, the one with no more words has no greater estimate.
C9_Monotone ==
    (Estimated /\ estPrev # <<>>) =>
        /\ estPrev[1].w <= WordCount(estIn) => estPrev[1].m <= estOut[1]
        /\ WordCount(estIn) <= estPrev[1].w => estOut[1] <= estPrev[1].m

\* 200 words after leading whitespace, then 201 words: 1 minute, then 2
C9_Witness ==
    /\ Estimated
    /\ estPrev = <<[w |-> 200, m |-> 1]>>
    /\ WordCount(estIn) = 201
    /\ estOut = <<2>>

Unterminated(doc) == HasOpen(doc) /\ \A i \in 2..Len(doc) : doc[i].t # "delim"

\* C10: a document with an opening marker and no closing marker makes the
\* parse fail: a listing over such a document fails, and so does the detail
\* of such a document.
C10_UnterminatedRejected ==
    /\ (/\ ret.op = "getPosts"
        /\ \E i \in 1..Len(PostFiles) : Unterminated(store[PostFiles[i]]))
           => ret.kind = "error"
    /\ (/\ ret.op = "getPostWithHtmlContent"
        /\ Exists(PathJoin(ret.id), dir)
        /\ Unterminated(store[PathJoin(ret.id)[Len(PathJoin(ret.id))]]))
           => ret.kind = "error"

\* a document of a marker line, entries of distinct keys, a marker line and
\* a body
WellFormed(doc) ==
    /\ HasOpen(doc)
    /\ \E close \in 2..Len(doc) :
        /\ doc[close].t = "delim"
        /\ \A i \in 2..(close - 1) : doc[i].t = "kv"
        /\ \A i, j \in 2..(close - 1) : i # j => doc[i].k # doc[j].k

\* the value a well-formed document declares for a key, Undefined for none
Declared(doc, key) ==
    LET close == CHOOSE i \in 2..Len(doc) :
                    doc[i].t = "delim" /\ \A j \in 2..(i - 1) : doc[j].t # "delim"
        hits == {i \in 2..(close - 1) : doc[i].k = key}
    IN  IF hits = {} THEN Undefined ELSE doc[CHOOSE i \in hits : TRUE].v

\* the fields of a record that come from the front matter are the declared ones
FieldsDeclared(post, doc) ==
    /\ post.title = Declared(doc, "title")
    /\ post.description = Declared(doc, "description")
    /\ post.coverPath = Declared(doc, "coverPath")
    /\ post.postedAt = Declared(doc, "date")

\* the document a detail call reads
DetailDoc == store[PathJoin(ret.id)[Len(PathJoin(ret.id))]]

\* C11: for a well-formed document, title, description, coverPath and
\* postedAt of its summary and of its detail are the front matter's title,
\* description, coverPath and date, the reading time is the estimate for the
\* text after the closing marker, and the HTML is the rendering of that text.
C11_FieldsRoundTrip ==
    /\ Listed =>
        \A k \in 1..Len(PostFiles) :
            WellFormed(store[PostFiles[k]]) =>
                \E i \in 1..Len(ret.posts) :
                    /\ ret.posts[i].id = StripMd(PostFiles[k])
                    /\ FieldsDeclared(ret.posts[i], store[PostFiles[k]])
                    /\ ret.posts[i].readTimeInMinutes =
                           toString(getReadingTimeInMinutes(BodyOf(store[PostFiles[k]])))
    /\ (Detailed /\ WellFormed(DetailDoc)) =>
        /\ FieldsDeclared(ret.detail[1], DetailDoc)
        /\ ret.detail[1].readTimeInMinutes =
               toString(getReadingTimeInMinutes(BodyOf(DetailDoc)))
        /\ ret.detail[1].htmlContent =
               marked(ContentWithReplacedBaseUrl(BodyOf(DetailDoc)), NoOccurrences).html

\* a listed post whose document declares all four fields
C11_Witness ==
    /\ Listed
    /\ \E i \in 1..Len(ret.posts) :
        /\ ret.posts[i].title = <<"T">>
        /\ ret.posts[i].description = <<"D">>
        /\ ret.posts[i].coverPath = <<"/", "c", ".", "p", "n", "g">>
        /\ ret.posts[i].postedAt = Date2024

\* C12: when every document is well-formed, whatever fields it declares, a
\* listing succeeds and holds for every file a record whose fields are the
\* declared ones, undefined where the document declares none; the detail of a
\* well-formed document succeeds likewise.
C12_MissingFieldsUndefined ==
    /\ (/\ ret.op = "getPosts"
        /\ \A k \in 1..Len(PostFiles) : WellFormed(store[PostFiles[k]]))
           => /\ ret.kind = "ok"
              /\ Len(ret.posts) = Len(PostFiles)
              /\ \A k \in 1..Len(PostFiles) :
                    \E i \in 1..Len(ret.posts) :
                        /\ ret.posts[i].id = StripMd(PostFiles[k])
                        /\ FieldsDeclared(ret.posts[i], store[PostFiles[k]])
    /\ (/\ ret.op = "getPostWithHtmlContent"
        /\ Exists(PathJoin(ret.id), dir)
        /\ WellFormed(DetailDoc))
           => /\ ret.kind = "ok"
              /\ FieldsDeclared(ret.detail[1], DetailDoc)

\* a listing of a post without a date next to a dated post
C12_Witness ==
    /\ Listed
    /\ Len(ret.posts) = 2
    /\ \E i, j \in 1..2 :
        /\ ret.posts[i].title = <<"U">>
        /\ ret.posts[i].postedAt = Undefined
        /\ ret.posts[i].description = Undefined
        /\ ret.posts[j].postedAt = Date2024

Contains(text, part) ==
    \E i \in 1..(Len(text) + 1 - Len(part)) : SubSeq(text, i, i + Len(part) - 1) = part

HasFence(doc) ==
    \E i \in 1..Len(doc) :
        Len(doc[i].v) >= 3 /\ \A k \in 1..3 : doc[i].v[k] = "&grave;"

RECURSIVE Literally(_, _, _)
Literally(text, token, value) ==
    IF Len(text) < Len(token) THEN text
    ELSE IF SubSeq(text, 1, Len(token)) = token
    THEN value \o Literally(SubSeq(text, Len(token) + 1, Len(text)), token, value)
    ELSE <<Head(text)>> \o Literally(Tail(text), token, value)

\* C14: the HTML of a detail is the rendering of the body with every
\* occurrence of the placeholder replaced by the value of the environment
\* variable as it is, and holds no placeholder.
C14_LiteralReplaceAll ==
    Detailed =>
        /\ ret.detail[1].htmlContent =
               marked(Literally(BodyOf(DetailDoc), Placeholder, NEXT_PUBLIC_BASE_URL),
                      NoOccurrences).html
        /\ ~Contains(ret.detail[1].htmlContent, Placeholder)

\* the headings of an HTML text, in order: [id, text]
HeadingsOf(html) ==
    LET IsOpen(i) == \E level \in 1..6 : html[i] = OpenHeading(level)
        opens == {i \in 1..Len(html) : IsOpen(i)}
        Nth(k) == CHOOSE i \in opens : Cardinality({j \in opens : j <= i}) = k
        IdEnd(i) == CHOOSE j \in (i + 1)..Len(html) :
                        html[j] = "\">" /\ \A x \in (i + 1)..(j - 1) : html[x] # "\">"
        TextEnd(i) == CHOOSE j \in (i + 1)..Len(html) :
                        /\ \E level \in 1..6 : html[j] = CloseHeading(level)
                        /\ \A x \in (i + 1)..(j - 1) :
                              \A level \in 1..6 : html[x] # CloseHeading(level)
    IN  [k \in 1..Cardinality(opens) |->
            [id |-> SubSeq(html, Nth(k) + 1, IdEnd(Nth(k)) - 1),
             text |-> SubSeq(html, IdEnd(Nth(k)) + 1, TextEnd(Nth(k)) - 1)]]

\* the body of a document rendered on its own
RenderedAlone(doc) ==
    Blocks(SplitLines(ContentWithReplacedBaseUrl(BodyOf(doc))), <<>>, NoOccurrences).html

\* C15: the headings of every detail have the ids they have when the body is
\* rendered on its own, whatever was rendered before.
C15_IdsStable ==
    Detailed =>
        HeadingsOf(ret.detail[1].htmlContent) = HeadingsOf(RenderedAlone(DetailDoc))

\* the post with two headings Section One, rendered, another post rendered,
\* and the first rendered again
C15_Witness ==
    /\ Detailed
    /\ renders # NotKept
    /\ renders[1] = ret.id
    /\ renders[3] = ret.id
    /\ renders[2] # <<>> /\ renders[2] # ret.id
    /\ Len(HeadingsOf(ret.detail[1].htmlContent)) = 3
    /\ HeadingsOf(ret.detail[1].htmlContent)[1].text
           = HeadingsOf(ret.detail[1].htmlContent)[2].text

\* the slug of a heading text: lower case, hyphens for spaces
SlugOf(text) ==
    [i \in 1..Len(text) |-> IF text[i] = " " THEN "-" ELSE toLowerCase(text)[i]]

ConfiguredPrefix == <<"s", "e", "c", "t", "i", "o", "n">>

\* C16 as stated: the id of every heading of a detail is the prefix followed
\* by the slug of the heading's text.
C16_IdIsPrefixSlug ==
    Detailed =>
        \A k \in 1..Len(HeadingsOf(ret.detail[1].htmlContent)) :
            LET h == HeadingsOf(ret.detail[1].htmlContent)[k]
            IN  h.id = ConfiguredPrefix \o SlugOf(h.text)

\* C16 amended: the id of a heading of a detail is the prefix followed by
\* the slug of the heading's text when no earlier heading of the document
\* has that id, and otherwise that id followed by a hyphen and a number from
\* 1 that makes it differ from the ids of all earlier headings.
C16_IdIsPrefixSlugNumbered ==
    Detailed =>
        \A k \in 1..Len(HeadingsOf(ret.detail[1].htmlContent)) :
            LET hs == HeadingsOf(ret.detail[1].htmlContent)
                plain == ConfiguredPrefix \o SlugOf(hs[k].text)
                earlier == {hs[j].id : j \in 1..(k - 1)}
            IN  IF plain \notin earlier THEN hs[k].id = plain
                ELSE /\ hs[k].id \notin earlier
                     /\ \E n \in 1..k : hs[k].id = plain \o <<"-">> \o toString(n)

\* ## Section One twice in a document: sectionsection-one, sectionsection-one-1
C16_Witness ==
    /\ Detailed
    /\ Len(HeadingsOf(ret.detail[1].htmlContent)) = 3
    /\ HeadingsOf(ret.detail[1].htmlContent)[1] =
           [id |-> <<"s", "e", "c", "t", "i", "o", "n",
                     "s", "e", "c", "t", "i", "o", "n", "-", "o", "n", "e">>,
            text |-> <<"S", "e", "c", "t", "i", "o", "n", " ", "O", "n", "e">>]
    /\ HeadingsOf(ret.detail[1].htmlContent)[2] =
           [id |-> <<"s", "e", "c", "t", "i", "o", "n",
                     "s", "e", "c", "t", "i", "o", "n", "-", "o", "n", "e", "-", "1">>,
            text |-> <<"S", "e", "c", "t", "i", "o", "n", " ", "O", "n", "e">>]

\* the language tags of the fenced blocks of a document whose blocks are all
\* closed: the fence lines alternate between opening and closing a block
FenceTags(doc) ==
    LET IsFenceLine(line) == Len(line.v) >= 3 /\ \A k \in 1..3 : line.v[k] = "&grave;"
        fences == SelectSeq(doc, IsFenceLine)
    IN  [k \in 1..(Len(fences) \div 2) |->
            SubSeq(fences[2 * k - 1].v, 4, Len(fences[2 * k - 1].v))]

\* the grammars the highlighted blocks of an HTML text were highlighted with
GrammarsOf(html) ==
    LET marks == {i \in 1..Len(html) : html[i] = "<hljs "}
        Nth(k) == CHOOSE i \in marks : Cardinality({j \in marks : j <= i}) = k
        End(i) == CHOOSE j \in (i + 1)..Len(html) :
                        html[j] = ">" /\ \A x \in (i + 1)..(j - 1) : html[x] # ">"
    IN  [k \in 1..Cardinality(marks) |-> SubSeq(html, Nth(k) + 1, End(Nth(k)) - 1)]

\* a document with a block quote nested deeper than the call stack holds
TooDeep(doc) ==
    \E i \in 1..Len(doc) :
        Len(doc[i].v) > StackDepth /\ \A k \in 1..(StackDepth + 1) : doc[i].v[k] = ">"

\* C17: the detail of a well-formed document (without a block quote nested
\* too deep to convert) succeeds whatever the language tags of its fenced
\* blocks, and every block is highlighted with the grammar of its tag when
\* the highlighter knows the tag and as plaintext when it does not or there
\* is none.
C17_PlaintextFallback ==
    (/\ ret.op = "getPostWithHtmlContent"
     /\ Exists(PathJoin(ret.id), dir)
     /\ WellFormed(DetailDoc)
     /\ ~TooDeep(DetailDoc))
        => /\ ret.kind = "ok"
           /\ GrammarsOf(ret.detail[1].htmlContent) =
                [k \in 1..Len(FenceTags(DetailDoc)) |->
                    IF FenceTags(DetailDoc)[k] \in {<<"t", "s">>, <<"b", "a", "s", "h">>}
                    THEN FenceTags(DetailDoc)[k]
                    ELSE <<"p", "l", "a", "i", "n", "t", "e", "x", "t">>]

\* blocks tagged ts, foo and not at all: highlighted as ts, plaintext, plaintext
C17_Witness ==
    /\ Detailed
    /\ FenceTags(DetailDoc) = <<<<"t", "s">>, <<"f", "o", "o">>, <<>>>>
    /\ GrammarsOf(ret.detail[1].htmlContent) =
           <<<<"t", "s">>, <<"p", "l", "a", "i", "n", "t", "e", "x", "t">>,
             <<"p", "l", "a", "i", "n", "t", "e", "x", "t">>>>

\* the outcome of a call in a process that has made no call before
Alone(op, id) ==
    IF op = "getPosts" THEN ListCall(dir, store, {}).out
    ELSE DetailCall(id, dir, store, {}, NoOccurrences).out

\* C18: the outcome of every call is the outcome the call has over the
\* directory as it is when the call is made, whatever calls were made and
\* whatever the directory held before.
C18_ReadsAtCallTime ==
    [][world' = world => ret' = Alone(ret'.op, ret'.id)]_vars

\* C19: a call leaves the directory and the documents as they are, and the
\* outcome of every call that can be made next is what it was before the call.
C19_ReadOnly ==
    [][/\ dir' = dir
       /\ store' = store
       /\ ListCall(dir, store, matterCache').out = ListCall(dir, store, matterCache).out
       /\ \A id \in Ids :
            DetailCall(id, dir, store, matterCache', slugger').out
                = DetailCall(id, dir, store, matterCache, slugger).out]_vars

\* C20: over an unchanging directory, the outcome of every call, taken by its
\* caller or not yet, is the outcome of the call made alone, whatever calls
\* the other callers made before it.
C20_AsIfAlone ==
    /\ \A c \in DOMAIN promises :
        promises[c] # <<>> => promises[c][1] = Alone(promises[c][1].op, promises[c][1].id)
    /\ ret # NoCall => ret = Alone(ret.op, ret.id)

\* C21: a listing over a directory that cannot be read, or with a file that
\* cannot be read or whose front matter the parser rejects, fails: no list
\* is returned.
C21_FailFast ==
    (/\ ret.op = "getPosts"
     /\ \/ postsDirectory \in unreadable
        \/ \E k \in 1..Len(PostFiles) :
            \/ (postsDirectory \o <<PostFiles[k]>>) \in unreadable
            \/ ParseThrows(store[PostFiles[k]]))
        => ret.kind = "error" /\ ret.posts = <<>>

\* C22: the detail of a well-formed document fails and returns nothing
\* when the conversion of its body throws, and otherwise returns the detail
\* with the whole rendering of the body.
C22_NoPartialDetail ==
    (/\ ret.op = "getPostWithHtmlContent"
     /\ Exists(PathJoin(ret.id), dir)
     /\ WellFormed(DetailDoc))
        => LET run == Blocks(SplitLines(ContentWithReplacedBaseUrl(BodyOf(DetailDoc))),
                             <<>>, NoOccurrences)
           IN  IF run.threw
               THEN ret.kind = "error" /\ ret.detail = <<>>
               ELSE ret.kind = "ok" /\ ret.detail[1].htmlContent = run.html

\* the detail of the post whose block quote is nested too deep has failed
C22_Witness ==
    /\ ret.op = "getPostWithHtmlContent"
    /\ Exists(PathJoin(ret.id), dir)
    /\ Declared(DetailDoc, "title") = <<"Z">>
    /\ ret.kind = "error"
    /\ ret.err = "Error"
    /\ ret.detail = <<>>

\* the path one document of the posts directory has
InDirectory(fullPath) ==
    /\ Len(fullPath) = Len(postsDirectory) + 1
    /\ SubSeq(fullPath, 1, Len(postsDirectory)) = postsDirectory

\* C23: when the listing is returned, a slug that is the id of no listed
\* post gives the not-found page and no document is read for it; a document
\* that is read is a document of the posts directory, at the path of the id
\* of a listed post; when the listing fails no document is read.
C23_OnlyListedRead ==
    page.fn = "Post" =>
        /\ page.listed /\ (\A i \in 1..Len(page.posts) : page.posts[i].id # page.slug)
            => page.kind = "notFound" /\ page.reads = <<>>
        /\ \A k \in 1..Len(page.reads) :
            /\ InDirectory(page.reads[k])
            /\ \E i \in 1..Len(page.posts) : page.reads[k] = PathJoin(page.posts[i].id)
        /\ ~page.listed => page.kind = "error" /\ page.reads = <<>>

\* the slug ./a, which the detail call would resolve to the file a.md of the
\* directory, is the id of no listed post: the page is the not-found page
C23_Witness ==
    /\ page.fn = "Post"
    /\ page.slug = <<".", "/", "a">>
    /\ Exists(PathJoin(page.slug), dir)
    /\ page.listed
    /\ page.posts # <<>>
    /\ page.kind = "notFound"
    /\ page.reads = <<>>

\* C24: after a listing, the detail call for the id of every file of the
\* directory other than the keep-alive file reads that file and does not
\* fail for want of it.
C24_ListedResolvable ==
    Listed =>
        \A k \in 1..Len(PostFiles) :
            /\ PathJoin(StripMd(PostFiles[k])) = postsDirectory \o <<PostFiles[k]>>
            /\ DetailCall(StripMd(PostFiles[k]), dir, store, matterCache, slugger).out.err
                    # "ENOENT"

\* C25: after a listing, the detail call for the id of every listed post
\* returns a detail whose id, title, description, coverPath, postedAt and
\* readTimeInMinutes are those of the listed post.
C25_DetailAgreesWithSummary ==
    Listed =>
        \A i \in 1..Len(ret.posts) :
            LET post == ret.posts[i]
                call == DetailCall(post.id, dir, store, matterCache, slugger).out
            IN  /\ call.kind = "ok"
                /\ call.detail[1].id = post.id
                /\ call.detail[1].title = post.title
                /\ call.detail[1].description = post.description
                /\ call.detail[1].coverPath = post.coverPath
                /\ call.detail[1].postedAt = post.postedAt
                /\ call.detail[1].readTimeInMinutes = post.readTimeInMinutes

\* the listing a call returns in this state, and its first post whose id is
\* the slug
Listing == ListCall(dir, store, matterCache).out.posts
IsListed(slug) == \E i \in 1..Len(Listing) : Listing[i].id = slug
ListedPost(slug) ==
    Listing[CHOOSE i \in 1..Len(Listing) :
                /\ Listing[i].id = slug
                /\ \A j \in 1..(i - 1) : Listing[j].id # slug]

\* C26: over an unchanging directory, the metadata of a slug has the title
\* 'Blog post not found.' exactly when the page of the slug is the not-found
\* page, and otherwise has the title and the description of the listed post
\* whose id is the slug.
C26_MetadataAgreesWithPage ==
    page.fn = "Post" =>
        LET meta == MetadataCall(page.slug, dir, store, matterCache).out
        IN  /\ (meta.kind = "ok" /\ meta.value[1].title = NotFoundTitle)
                <=> page.kind = "notFound"
            /\ page.kind # "notFound"
                => /\ meta.kind = "ok"
                   /\ IsListed(page.slug)
                   /\ meta.value[1].title = ListedPost(page.slug).title
                   /\ meta.value[1].description = ListedPost(page.slug).description

\* C27: the static parameters are one entry for every post of the listing,
\* in the order of the listing, with the id of the post as its slug, and the
\* page of no such slug is the not-found page.
C27_ParamsAreListedIds ==
    (page.fn = "generateStaticParams" /\ page.kind = "ok") =>
        /\ Len(page.value) = Len(Listing)
        /\ \A i \in 1..Len(Listing) : page.value[i] = [slug |-> Listing[i].id]
        /\ \A i \in 1..Len(page.value) :
            PostCall(page.value[i].slug, dir, store, matterCache, slugger).out.kind
                # "notFound"

\* the parameters of a directory with two posts
C27_Witness ==
    /\ page.fn = "generateStaticParams"
    /\ page.kind = "ok"
    /\ Len(page.value) = 2
    /\ page.value[1].slug = <<"b">>
    /\ page.value[2].slug = <<"a">>

\* the posts the home page shows, and the posts of the listing it leaves out
Shown == IF page.value = <<>> THEN <<>> ELSE page.value[1].previews
Hidden == SubSeq(page.posts, Len(Shown) + 1, Len(page.posts))

\* C28 as stated: the home page shows the first min(3, n) posts of the
\* listing of n posts, in the order of the listing; no post it leaves out
\* has a postedAt greater than the postedAt of a post it shows; the section
\* is rendered exactly when n > 0.
C28_RecentAreNewest ==
    (page.fn = "Home" /\ page.kind = "ok") =>
        /\ page.posts = Listing
        /\ Shown = SubSeq(Listing, 1, Min(RecentCount, Len(Listing)))
        /\ \A i \in 1..Len(Shown), j \in 1..Len(Hidden) :
            ~JsLess(Shown[i].postedAt, Hidden[j].postedAt)
        /\ (page.value # <<>>) <=> (Len(Listing) > 0)

\* C28 amended: the same, the comparison of dates for listings in which
\* every post has a postedAt.
C28_RecentAreNewestWhenDated ==
    (page.fn = "Home" /\ page.kind = "ok") =>
        /\ page.posts = Listing
        /\ Shown = SubSeq(Listing, 1, Min(RecentCount, Len(Listing)))
        /\ AllDated(Listing)
            => \A i \in 1..Len(Shown), j \in 1..Len(Hidden) :
                ~JsLess(Shown[i].postedAt, Hidden[j].postedAt)
        /\ (page.value # <<>>) <=> (Len(Listing) > 0)

\* four dated posts, the newest enumerated last: three are shown, the newest
\* among them, and an older one is left out
C28_Witness ==
    /\ page.fn = "Home"
    /\ page.kind = "ok"
    /\ Len(dir) = 4
    /\ AllDated(Listing)
    /\ store[dir[4]] = DocNew
    /\ \E k \in 1..3 : store[dir[k]] = DocOld
    /\ Len(Shown) = RecentCount
    /\ Shown[1].postedAt = Date2024
    /\ Len(Hidden) = 1
    /\ Hidden[1].postedAt = Date2023

====
